---------------------------- MODULE Spec2Model ----------------------------
(***************************************************************************)
(* A model of the QBR deck generator: src/app.py (the Streamlit app: data  *)
(* aggregator, KPI gauge renderer, deck composer, script run with its      *)
(* session state and temporary files) and src/qbrgenerator.py (the         *)
(* command-line pipeline).                                                 *)
(*                                                                         *)
(* Conventions.  Lengths are held in hundredths of an inch (every length   *)
(* of the source is a whole number of them, and the float arithmetic of    *)
(* the source is exact on them) and converted to EMU by Inches.  A         *)
(* customer name is a sequence of one-character strings, so that           *)
(* str.replace and hash act on its characters; Str gives its string.  A    *)
(* date is a day number, printed "day<n>".  Titles are written without     *)
(* their emoji.  None and "" (both falsy in the source) are "".            *)
(***************************************************************************)
EXTENDS Integers, Sequences, FiniteSets, TLC

(***************************************************************************)
(* Bounds of the model.                                                    *)
(***************************************************************************)
\* process hash salts (PYTHONHASHSEED values) are drawn from 0..MaxSalt
MaxSalt == 1
\* the calendar runs over the days 0..MaxDay
MaxDay == 1
\* roadmap mappings given to the composer have 0..MaxRoadmap entries
MaxRoadmap == 4
\* tables given to the composer have 0..MaxRows data rows
MaxRows == 3
\* script runs each session starts where runs interleave
MaxConcRuns == 1

(***************************************************************************)
(* Strings as character sequences.                                         *)
(***************************************************************************)
\* code point of a character (Python's ord)
Ord(c) ==
    CASE c = "A" -> 65  [] c = "B" -> 66  [] c = "C" -> 67  [] c = "S" -> 83
      [] c = "a" -> 97  [] c = "c" -> 99  [] c = "e" -> 101 [] c = "l" -> 108
      [] c = "m" -> 109 [] c = "n" -> 110 [] c = "o" -> 111 [] c = "p" -> 112
      [] c = "y" -> 121 [] c = " " -> 32  [] c = "_" -> 95  [] c = "." -> 46

\* str.replace(' ', '_')
ReplaceSpaces(name) ==
    [i \in 1..Len(name) |-> IF name[i] = " " THEN "_" ELSE name[i]]

\* the customer names a requester may type ("" included)
Names == { <<>>, <<"A", " ", "B">> }

\* the subjects the aggregator is called with on its own
Subjects == { <<>>, <<"A", " ", "B">>, <<"A", "_", "B">> }

SampleCo == <<"S","a","m","p","l","e"," ","C","o",".">>

Tones == {"Formal", "Optimistic"}

(***************************************************************************)
(* hash(str) and numpy's global generator.  Both are library code: the     *)
(* model keeps their interfaces (a hash keyed by a per-process salt, 0 for *)
(* the empty string; a generator whose draws are a function of its state)  *)
(* at a reduced width.                                                     *)
(***************************************************************************)
\* width of hash() in the model (2**64 in CPython)
HashMod == 65536
\* the modulus of app.py line 36 at the model's width (2**32 - 1 there)
SeedMod == 65535
\* modulus and multiplier of the stand-in generator
RngMod == 65537
RngMul == 75

RECURSIVE StrHash(_, _)
\* hash(s) in a process whose hash salt is salt
StrHash(s, salt) ==
    IF s = <<>> THEN 0
    ELSE (StrHash(SubSeq(s, 1, Len(s) - 1), salt) * 31
            + Ord(s[Len(s)]) * (salt + 1) + salt * 7919) % HashMod

\* np.random.seed(hash(customer_name) % (2**32 - 1)): the generator state
HashSeed(customer_name, salt) == StrHash(customer_name, salt) % SeedMod

\* np.random.seed(42)
FixedSeed == 42

\* one step of the generator
RngStep(x) == (x * RngMul + 74) % RngMod

RECURSIVE RngAfter(_, _)
\* the generator state after k draws from state x
RngAfter(x, k) == IF k = 0 THEN x ELSE RngStep(RngAfter(x, k - 1))

\* the k-th np.random.randint(lo, hi) after seeding to x: lo <= value < hi
RandInt(x, k, lo, hi) == lo + (RngAfter(x, k) % (hi - lo))

(***************************************************************************)
(* Data aggregator of the app.                                             *)
(***************************************************************************)
DateStr(day) == "day" \o ToString(day)

\* a pandas DataFrame: column names and rows of values
DataFrame(cols, rws) == [columns |-> cols, rows |-> rws]

\* draws made by one call of get_enhanced_mock_data
DrawsPerCall == 11

\* every challenge prefixed whatever the tone
ChallengePrefix_Always(tone) == "Opportunity for growth: "

\* lines 39-44: challenge_prefix by tone
ChallengePrefix(tone) ==
    IF tone = "Optimistic" THEN "Opportunity for growth: " ELSE ""

\* lines 39-44: learning_prefix by tone
LearningPrefix(tone) ==
    IF tone = "Optimistic" THEN "Valuable insight gained: " ELSE ""

\* get_enhanced_mock_data(customer_name, tone) run with the generator in
\* state rng (the state np.random.seed left) on day today: locals()
EnhancedData(customer_name, tone, rng, today) ==
    LET challenge_prefix == ChallengePrefix(tone)
        learning_prefix == LearningPrefix(tone)
        tenths == 60 + (RngAfter(rng, 8) % 20)
    IN  [ customer_name |-> customer_name,
          tone |-> tone,
          challenge_prefix |-> challenge_prefix,
          learning_prefix |-> learning_prefix,
          kpis |->
            [ AccountHealth |-> RandInt(rng, 1, 75, 98),
              NPS |-> RandInt(rng, 2, 30, 65),
              ProductAdoption |-> RandInt(rng, 3, 60, 95),
              ActiveUsers |-> ToString(RandInt(rng, 4, 150, 500)),
              SupportTicketsClosed |-> RandInt(rng, 5, 25, 100),
              RenewalDate |-> DateStr(today + RandInt(rng, 6, 90, 365)) ],
          commit_vs_actual |->
            DataFrame(<<"Metric", "Commitment", "Actual", "Status">>,
              << <<"Feature Delivery", "5 New Features", "6 New Features",
                   "Exceeded">>,
                 <<"Uptime SLA", "99.9% Uptime",
                   "99.9" \o ToString(RngAfter(rng, 7) % 10) \o "% Uptime",
                   "Met">>,
                 <<"Avg. Ticket Response", "< 8 Hours",
                   ToString(tenths \div 10) \o "." \o ToString(tenths % 10)
                      \o " Hours",
                   "Met">> >>),
          challenges |->
            << challenge_prefix \o "Initial onboarding for the new analytics module was slower than anticipated.",
               challenge_prefix \o "Integration with the legacy CRM system required custom development work.",
               challenge_prefix \o "User adoption in the finance department is lagging behind other teams." >>,
          learnings |->
            << learning_prefix \o "A dedicated onboarding webinar for new modules significantly boosts initial adoption.",
               learning_prefix \o "Pre-sales technical discovery for legacy systems is crucial to scope integrations accurately.",
               learning_prefix \o "Targeted training sessions and identifying team champions accelerate department-level adoption." >>,
          okrs |->
            DataFrame(<<"Objective", "Key Result", "Status">>,
              << <<"Enhance Team Collaboration",
                   "Increase shared dashboard usage by 20%", "Not Started">>,
                 <<"Enhance Team Collaboration",
                   "Onboard the marketing team to the platform", "Not Started">>,
                 <<"Improve Data-Driven Decisions",
                   "Complete integration with BI tool", "Not Started">>,
                 <<"Improve Data-Driven Decisions",
                   "Train 5 team leads on advanced reporting", "Not Started">> >>),
          roadmap |->
            << [quarter |-> "Q4 2025",
                features |-> <<"AI-Powered Insights Engine", "Mobile App V2 Launch">>],
               [quarter |-> "Q1 2026",
                features |-> <<"Advanced API Access", "Third-Party Integration Marketplace">>],
               [quarter |-> "Q2 2026",
                features |-> <<"Predictive Analytics Module", "Team-based Permissions V3">>] >>,
          revenue_forecast |->
            DataFrame(<<"Month", "Forecasted Revenue ($K)">>,
              [i \in 1..3 |->
                 << "2025-" \o ToString(9 + i) \o "-01",
                    ToString(50 + (i - 1) * 5 + RandInt(rng, 8 + i, -5, 5)) >>]),
          action_plan |->
            DataFrame(<<"Action Item", "Owner", "Due Date", "Status">>,
              << <<"Schedule onboarding for marketing team", "John (CSM)",
                   DateStr(today + 14), "Not Started">>,
                 <<"Finalize BI tool integration specs", "Jane (Customer IT)",
                   DateStr(today + 30), "Not Started">>,
                 <<"Identify and train finance dept. champions", "Sarah (CSM)",
                   DateStr(today + 45), "Not Started">> >>) ]

\* get_mock_customer_data(customer_name) of qbrgenerator.py run with the
\* generator in state rng (the state np.random.seed(42) left)
MockCustomerData(customer_name, rng) ==
    [ customer_name |-> customer_name,
      mau_df |->
        DataFrame(<<"Month", "ActiveUsers">>,
          [i \in 1..4 |->
             << "2025-" \o ToString(4 + i) \o "-01",
                150 + (i - 1) * 15 + RandInt(rng, i, -10, 10) >>]),
      tickets_df |->
        DataFrame(<<"Category", "Status", "Resolution Time (Hours)">>,
          << <<"Technical", "Closed", "4">>, <<"Billing", "Closed", "8">>,
             <<"Feature Request", "Open", "nan">>,
             <<"Technical", "Closed", "6">> >>),
      kpis |->
        [ AccountHealthScore |-> RandInt(rng, 5, 85, 95),
          LastQuarterNPS |-> RandInt(rng, 6, 40, 60),
          ProductAdoptionRate |-> 75 + RandInt(rng, 7, 0, 10),
          RenewalDate |-> "2026-03-01" ] ]

\* draws made by one call of get_mock_customer_data
MockDrawsPerCall == 7

(***************************************************************************)
(* Units, palette and shapes of the deck.                                  *)
(***************************************************************************)
\* EMU per hundredth of an inch (pptx.util.Inches: 914400 EMU per inch)
EmuPerHundredth == 9144

\* Inches(h / 100): every length of the source is a whole number of
\* hundredths, and int(x * 914400) is exact on each of them
Inches(h) == h * EmuPerHundredth

PRIMARY_COLOR_PPT == <<10, 47, 87>>
ACCENT_COLOR_PPT == <<0, 122, 255>>
TEXT_COLOR_PPT == <<33, 33, 33>>
BACKGROUND_COLOR_PPT == <<248, 249, 250>>
WHITE_COLOR == <<255, 255, 255>>
\* a colour or fill the code does not set
NoColor == <<>>

RECURSIVE Str(_)
\* the Python string a character sequence stands for
Str(cs) == IF cs = <<>> THEN "" ELSE Head(cs) \o Str(Tail(cs))

\* a paragraph with the font attributes the code sets on it
Para(text, size, bold, color) ==
    [text |-> text, size |-> size, bold |-> bold, color |-> color]

\* slide.shapes.add_textbox(left, top, width, height) with its paragraphs
TextBox(left, top, width, height, paras) ==
    [shape |-> "textbox", left |-> left, top |-> top, width |-> width,
     height |-> height, paras |-> paras]

\* slide.shapes.add_picture(path, left, top, ...): the image read from path
Picture(image, left, top) ==
    [shape |-> "picture", image |-> image, left |-> left, top |-> top]

(***************************************************************************)
(* The file system of the working directory: file name -> content.         *)
(***************************************************************************)
Exists(fs, path) == path \in DOMAIN fs

WriteFile(fs, path, content) ==
    [n \in DOMAIN fs \cup {path} |-> IF n = path THEN content ELSE fs[n]]

RemoveFile(fs, path) == [n \in DOMAIN fs \ {path} |-> fs[n]]

\* the file left where it is
CleanedUp_Kept(fs, path) == fs

\* if os.path.exists(path): os.remove(path) (lines 438-439 and 451-452)
CleanedUp(fs, path) == IF Exists(fs, path) THEN RemoveFile(fs, path) ELSE fs

(***************************************************************************)
(* add_master_slide_elements, add_title_slide, add_content_slide.          *)
(***************************************************************************)
\* footer line, footer text and, when logo_path names an existing file,
\* the logo picture read from it
MasterElements(customer_name, logo_path, fs, today) ==
    << [shape |-> "line", left |-> Inches(50), top |-> Inches(850),
        width |-> Inches(1500), height |-> Inches(0),
        color |-> ACCENT_COLOR_PPT],
       TextBox(Inches(50), Inches(855), Inches(1000), Inches(30),
         << Para("Quarterly Business Review: " \o Str(customer_name)
                   \o " | " \o DateStr(today), 10, FALSE, TEXT_COLOR_PPT) >>) >>
    \o (IF logo_path # "" /\ Exists(fs, logo_path)
          THEN << Picture(fs[logo_path], Inches(1450), Inches(40)) >>
          ELSE << >>)

add_title_slide(title_text, subtitle_text, customer_name, logo_path, fs, today) ==
    [ title |-> title_text,
      shapes |->
        << TextBox(Inches(100), Inches(300), Inches(1400), Inches(200),
             << Para(title_text, 54, TRUE, PRIMARY_COLOR_PPT) >>),
           TextBox(Inches(100), Inches(480), Inches(1400), Inches(100),
             << Para(subtitle_text, 24, FALSE, TEXT_COLOR_PPT) >>) >>
        \o MasterElements(customer_name, logo_path, fs, today) ]

add_content_slide(title_text, customer_name, logo_path, fs, today) ==
    [ title |-> title_text,
      shapes |->
        << TextBox(Inches(50), Inches(50), Inches(1400), Inches(120),
             << Para(title_text, 36, TRUE, PRIMARY_COLOR_PPT) >>) >>
        \o MasterElements(customer_name, logo_path, fs, today) ]

\* the last slide of prs with shape sh added to it
AddShape(prs, sh) ==
    [prs EXCEPT ![Len(prs)].shapes = Append(@, sh)]

(***************************************************************************)
(* add_styled_table_to_slide.                                              *)
(***************************************************************************)
\* a header cell: bold white centred text on the primary colour
HeaderCell(col_name) ==
    [text |-> col_name, bold |-> TRUE, color |-> WHITE_COLOR, size |-> 14,
     align |-> "CENTER", fill |-> PRIMARY_COLOR_PPT]

\* the zebra rule with the parity reversed
Shaded_EvenRows(r_idx) == r_idx % 2 = 0

\* the zebra rule of line 146: data rows of odd index are shaded
Shaded(r_idx) == r_idx % 2 = 1

\* the cell of data row r_idx (0-indexed)
BodyCell(value, r_idx) ==
    [text |-> value, bold |-> FALSE, color |-> NoColor, size |-> 12,
     align |-> "LEFT",
     fill |-> IF Shaded(r_idx) THEN BACKGROUND_COLOR_PPT ELSE NoColor]

\* the number of rows add_table is asked for
TableRows(df) == Len(df.rows) + 1

\* a cell of the table as add_table leaves it
BlankCell ==
    [text |-> "", bold |-> FALSE, color |-> NoColor, size |-> 0,
     align |-> "", fill |-> NoColor]

\* the table shape: row 1 holds the header, row r + 2 data row r
add_styled_table_to_slide(df, x, y, cx, cy) ==
    LET ncols == Len(df.columns)
    IN  [ shape |-> "table", left |-> x, top |-> y, width |-> cx,
          height |-> cy,
          nrows |-> TableRows(df),
          col_width |-> [i \in 1..ncols |-> cx \div ncols],
          cells |->
            [r \in 1..TableRows(df) |->
               [c \in 1..ncols |->
                  IF r = 1 THEN HeaderCell(df.columns[c])
                  ELSE IF r - 1 <= Len(df.rows)
                         THEN BodyCell(df.rows[r - 1][c], r - 2)
                         ELSE BlankCell]] ]

(***************************************************************************)
(* The slides of create_professional_qbr_deck, in the order of the code.   *)
(***************************************************************************)
AgendaTopics ==
    << "Quarterly Snapshot & Highlights", "Commitment Review",
       "Challenges & Key Learnings", "Objectives for Next Quarter (OKRs)",
       "Strategic Growth & Product Roadmap", "Joint Action Plan & Next Steps" >>

RoadmapTitle == "Strategic Growth & Product Roadmap"

\* line 216
TitleSlide(data, logo_path, fs, today) ==
    add_title_slide("Quarterly Business Review: " \o Str(data.customer_name),
        "Q3 2025 Report | Prepared: " \o DateStr(today),
        data.customer_name, logo_path, fs, today)

\* lines 218-223
AgendaSlide(data, logo_path, fs, today) ==
    LET slide == add_content_slide("Agenda", data.customer_name, logo_path,
                                   fs, today)
    IN  [slide EXCEPT !.shapes = Append(@,
           TextBox(Inches(100), Inches(200), Inches(1400), Inches(600),
             [i \in 1..Len(AgendaTopics) |->
                Para(AgendaTopics[i], 24, FALSE, NoColor)]))]

\* line 225
KpiSlide(data, logo_path, fs, today) ==
    add_content_slide("Quarterly Snapshot: Highlights", data.customer_name,
                      logo_path, fs, today)

\* lines 95-97 of create_kpi_gauge_chart
GaugeColor(score) ==
    IF score >= 90 THEN "#28a745"
    ELSE IF score >= 80 THEN "#ffc107" ELSE "#dc3545"

\* the image create_kpi_gauge_chart saves (by: the session that drew it)
GaugeImage(score, by) ==
    [kind |-> "png", chart |-> "gauge", score |-> score,
     color |-> GaugeColor(score), by |-> by]

\* lines 231-237: the text box of the KPIs other than Account Health
OtherKpisBox(data) ==
    TextBox(Inches(700), Inches(250), Inches(800), Inches(550),
      << Para("NPS: " \o ToString(data.kpis.NPS), 22, FALSE, NoColor),
         Para("Product Adoption (%): " \o ToString(data.kpis.ProductAdoption),
              22, FALSE, NoColor),
         Para("Active Users: " \o data.kpis.ActiveUsers, 22, FALSE, NoColor),
         Para("Support Tickets Closed: "
                \o ToString(data.kpis.SupportTicketsClosed), 22, FALSE, NoColor),
         Para("Renewal Date: " \o data.kpis.RenewalDate, 22, FALSE, NoColor) >>)

\* lines 239-240
CommitSlide(data, logo_path, fs, today) ==
    LET slide == add_content_slide("Commitment Review: Promises vs. Reality",
                                   data.customer_name, logo_path, fs, today)
    IN  [slide EXCEPT !.shapes = Append(@,
           add_styled_table_to_slide(data.commit_vs_actual, Inches(100),
                                     Inches(250), Inches(1400), Inches(400)))]

\* a heading followed by one bullet per item (lines 245-246, 250-251)
BulletParas(heading, items) ==
    << Para(heading, 24, TRUE, PRIMARY_COLOR_PPT) >>
    \o [i \in 1..Len(items) |-> Para("* " \o items[i], 16, FALSE, NoColor)]

\* lines 242-251
ChallengesSlide(data, logo_path, fs, today) ==
    LET slide == add_content_slide("Challenges & Key Learnings",
                                   data.customer_name, logo_path, fs, today)
    IN  [slide EXCEPT !.shapes = @ \o
           << TextBox(Inches(100), Inches(250), Inches(650), Inches(500),
                BulletParas("Challenges Faced", data.challenges)),
              TextBox(Inches(850), Inches(250), Inches(650), Inches(500),
                BulletParas("Key Lessons Learned", data.learnings)) >>]

\* lines 253-254
OkrSlide(data, logo_path, fs, today) ==
    LET slide == add_content_slide("Objectives for Next Quarter (OKRs)",
                                   data.customer_name, logo_path, fs, today)
    IN  [slide EXCEPT !.shapes = Append(@,
           add_styled_table_to_slide(data.okrs, Inches(100), Inches(250),
                                     Inches(1400), Inches(500)))]

(***************************************************************************)
(* The roadmap row layout (lines 257-262), in hundredths of an inch.       *)
(***************************************************************************)
\* the slide width of line 173 and the 16 of line 259
CanvasWidth == 1600
\* box_width_r = 4.5
BoxWidth == 450
\* gap_r = 1.0
GapWidth == 100

total_width_r(num_roadmap) ==
    num_roadmap * BoxWidth + (num_roadmap - 1) * GapWidth

\* the left offset without the halving
start_x_r_NotHalved(num_roadmap) == CanvasWidth - total_width_r(num_roadmap)

\* (16 - total_width_r) / 2; 16 - total_width_r is even in hundredths
start_x_r(num_roadmap) == (CanvasWidth - total_width_r(num_roadmap)) \div 2

\* the left of box i with the gap left out of the stride
BoxLeft_NoGap(num_roadmap, i) ==
    Inches(start_x_r(num_roadmap) + i * BoxWidth)

\* left of box i (0-indexed), line 261
BoxLeft(num_roadmap, i) ==
    Inches(start_x_r(num_roadmap) + i * (BoxWidth + GapWidth))

\* lines 256-264
RoadmapSlide(data, logo_path, fs, today) ==
    LET slide == add_content_slide(RoadmapTitle, data.customer_name,
                                   logo_path, fs, today)
        num_roadmap == Len(data.roadmap)
    IN  [slide EXCEPT !.shapes = @ \o
           [i \in 1..num_roadmap |->
              TextBox(BoxLeft(num_roadmap, i - 1), Inches(250),
                      Inches(BoxWidth), Inches(500),
                << Para(data.roadmap[i].quarter, 24, TRUE, ACCENT_COLOR_PPT) >>
                \o [j \in 1..Len(data.roadmap[i].features) |->
                      Para("* " \o data.roadmap[i].features[j], 18, FALSE,
                           NoColor)])]]

\* lines 266-267
ActionPlanSlide(data, logo_path, fs, today) ==
    LET slide == add_content_slide("Joint Action Plan & Owners",
                                   data.customer_name, logo_path, fs, today)
    IN  [slide EXCEPT !.shapes = Append(@,
           add_styled_table_to_slide(data.action_plan, Inches(100),
                                     Inches(250), Inches(1400), Inches(400)))]

\* line 269
ClosingSlide(data, logo_path, fs, today) ==
    add_title_slide("Thank You", "Q&A and Discussion", data.customer_name,
                    logo_path, fs, today)

\* line 272
OutputFilename(data, today) ==
    "QBR_" \o Str(ReplaceSpaces(data.customer_name)) \o "_" \o DateStr(today)
      \o ".pptx"

\* the slides the composer adds at a step that touches no file of its own
SlidesOfStep(step, data, logo_path, fs, today) ==
    CASE step = "title" -> << TitleSlide(data, logo_path, fs, today) >>
      [] step = "agenda" -> << AgendaSlide(data, logo_path, fs, today) >>
      [] step = "commit" -> << CommitSlide(data, logo_path, fs, today) >>
      [] step = "challenges" -> << ChallengesSlide(data, logo_path, fs, today) >>
      [] step = "okr" -> << OkrSlide(data, logo_path, fs, today) >>
      [] step = "roadmap" -> << RoadmapSlide(data, logo_path, fs, today) >>
      [] step = "action" -> << ActionPlanSlide(data, logo_path, fs, today) >>
      [] step = "closing" -> << ClosingSlide(data, logo_path, fs, today) >>

\* the steps of create_professional_qbr_deck, in program order
ComposerSteps ==
    << "title", "agenda", "kpi_slide", "gauge_insert", "gauge_remove",
       "commit", "challenges", "okr", "roadmap", "action", "closing", "save" >>

SlideSteps ==
    {"title", "agenda", "commit", "challenges", "okr", "roadmap", "action",
     "closing"}

\* the position after step: the next composer step, "mark" after the last
AfterStep(step) ==
    LET i == CHOOSE k \in 1..Len(ComposerSteps) : ComposerSteps[k] = step
    IN  IF i < Len(ComposerSteps) THEN ComposerSteps[i + 1] ELSE "mark"

(***************************************************************************)
(* The stages of the command-line pipeline of qbrgenerator.py.             *)
(* get_mock_customer_data stands for a call to a CRM or database (line     *)
(* 13), so the stages are also given facts whose time series have other    *)
(* lengths and values than the four mock points.                           *)
(***************************************************************************)
\* time series given to the pipeline have 0..MaxSeries points
MaxSeries == 2

\* the monthly active user counts such a series is made of
SeriesValues == {0, 150}

\* a mau_df of the given ActiveUsers values
MauFrame(values) ==
    DataFrame(<<"Month", "ActiveUsers">>,
      [i \in 1..Len(values) |->
         << "2025-" \o ToString(4 + i) \o "-01", values[i] >>])

\* the facts the stages are given for a customer
CliFacts(customer_name) ==
    LET mock == MockCustomerData(customer_name, FixedSeed)
    IN  {mock} \cup
        { [mock EXCEPT !.mau_df = MauFrame(values)] :
            values \in UNION { [1..n -> SeriesValues] : n \in 0..MaxSeries } }

\* mau_df['ActiveUsers']
ActiveUsers(mau_df) == [i \in 1..Len(mau_df.rows) |-> mau_df.rows[i][2]]

\* f"{mau_growth:.1f}" of line 56, for mau_growth of line 51: numpy integer
\* division by zero gives inf or nan, not an exception; other quotients are
\* rounded to one decimal (half-way cases to even)
GrowthText(first, last) ==
    IF first = 0
      THEN IF last = 0 THEN "nan" ELSE IF last > 0 THEN "inf" ELSE "-inf"
      ELSE LET n == (last - first) * 1000
               a == IF n < 0 THEN 0 - n ELSE n
               q == a \div first
               r == a % first
               t == IF 2 * r > first \/ (2 * r = first /\ q % 2 = 1)
                      THEN q + 1 ELSE q
           IN  (IF n < 0 THEN "-" ELSE "")
                 \o ToString(t \div 10) \o "." \o ToString(t % 10)

\* generate_ai_summary(data), lines 47-58, for a series that is not empty
generate_ai_summary(data) ==
    LET users == ActiveUsers(data.mau_df)
    IN  "This quarter, " \o Str(data.customer_name)
          \o " has demonstrated strong positive momentum. "
          \o "The Account Health Score is a robust "
          \o ToString(data.kpis.AccountHealthScore)
          \o "/100, and product adoption remains high at "
          \o ToString(data.kpis.ProductAdoptionRate) \o "%. "
          \o "We've observed a significant "
          \o GrowthText(users[1], users[Len(users)])
          \o "% growth in Monthly Active Users over the period, "
          \o "indicating excellent engagement and value realization."

MauChartPath == "mau_chart.png"

\* the image create_mau_chart saves, lines 63-77: the line through the
\* points of the series and the three texts the code sets
MauChartImage(mau_df, customer_name) ==
    [ kind |-> "mau_chart",
      points |-> ActiveUsers(mau_df),
      texts |-> { "Monthly Active Users (MAU) Trend for " \o Str(customer_name),
                  "Month", "Active Users" } ]

\* strftime('%B %d, %Y') of line 91
LongDateStr(day) == "Day " \o ToString(day)

\* the four slides of create_qbr_deck, lines 83-122
CliSlides(data, summary, chart, today) ==
    << [ layout |-> 0,
         title |-> "Quarterly Business Review: " \o Str(data.customer_name),
         shapes |-> << [shape |-> "subtitle",
                        text |-> "Q3 2025 Report\nPrepared on: "
                                   \o LongDateStr(today)] >> ],
       [ layout |-> 1,
         title |-> "Executive Summary",
         shapes |-> << [shape |-> "content", text |-> summary] >> ],
       [ layout |-> 5,
         title |-> "Key Performance Indicators",
         shapes |->
           << TextBox(Inches(100), Inches(150), Inches(850), Inches(400),
                << Para("", 0, FALSE, NoColor),
                   Para("Account Health Score: "
                          \o ToString(data.kpis.AccountHealthScore),
                        0, TRUE, NoColor),
                   Para("Last Quarter NPS: "
                          \o ToString(data.kpis.LastQuarterNPS),
                        0, TRUE, NoColor),
                   Para("Product Adoption Rate (%): "
                          \o ToString(data.kpis.ProductAdoptionRate),
                        0, TRUE, NoColor),
                   Para("Renewal Date: " \o data.kpis.RenewalDate,
                        0, TRUE, NoColor) >>) >> ],
       [ layout |-> 5,
         title |-> "User Engagement Growth",
         shapes |-> << Picture(chart, Inches(150), Inches(200)) >> ] >>

(***************************************************************************)
(* State.  The process: the calendar, the hash salt of the interpreter,    *)
(* numpy's global generator, the working directory.  Per browser session:  *)
(* the position of its script run, its widget values, its                  *)
(* st.session_state, the locals of the run.  The remaining variables       *)
(* record what a run did; no action reads them.                            *)
(***************************************************************************)
VARIABLES
    today,              \* datetime.date.today()
    hashSalt,           \* the salt of hash() in this interpreter
    np_random,          \* the state of np.random's global generator
    files,              \* the working directory
    pc,                 \* where each session's script run stands
    button,             \* st.button("Create Presentation") of the run
    customer_name,      \* st.text_input("Customer Name")
    uploaded_logo,      \* st.file_uploader(...)
    presentation_tone,  \* st.selectbox("Select Presentation Tone")
    deck_generated,     \* st.session_state.deck_generated
    deck_path,          \* st.session_state.deck_path
    logo_path,          \* local of the button handler
    enhanced_data,      \* local of the button handler
    prs,                \* the slides of the Presentation being built
    final_deck_path,    \* local of the button handler
    opened,             \* the content of the file opened at line 445
    outcome,            \* how the run went, or is going
    created,            \* the files the handler of the run has written
    offered,            \* what st.download_button was given in the run
    lifecycle,          \* events of the session's latest deck file
    previous,           \* the result of an earlier aggregator call
    runs,               \* script runs started, where they are counted
    cli                 \* the run of generate_qbr_for_customer: its locals

vars ==
    << today, hashSalt, np_random, files, pc, button, customer_name,
       uploaded_logo, presentation_tone, deck_generated, deck_path,
       logo_path, enhanced_data, prs, final_deck_path, opened, outcome, created, offered,
       lifecycle, previous, runs, cli >>

Sessions == {1, 2}

\* no DataFrame bag, no upload, no file content
NoData == [none |-> TRUE]
NoUpload == [present |-> FALSE]
NoFile == [kind |-> "none"]

\* generate_qbr_for_customer is not running
CliIdle ==
    [ pc |-> "idle", customer_name |-> << >>, customer_data |-> NoData,
      ai_summary |-> "", chart_file |-> "", deck_filename |-> "",
      outcome |-> "ready" ]

\* what session s may have in its file uploader
Uploads(s) == { NoUpload, [present |-> TRUE, name |-> "logo.png", bytes |-> s] }

KpiGaugePath == "kpi_gauge.png"
SampleGaugePath == "sample_gauge.png"

\* the content of a saved deck
DeckFile(slides, by) == [kind |-> "pptx", slides |-> slides, by |-> by]

\* the locals of a run that has ended
NoLocals(s) ==
    /\ logo_path' = [logo_path EXCEPT ![s] = ""]
    /\ enhanced_data' = [enhanced_data EXCEPT ![s] = NoData]
    /\ prs' = [prs EXCEPT ![s] = << >>]
    /\ final_deck_path' = [final_deck_path EXCEPT ![s] = ""]
    /\ opened' = [opened EXCEPT ![s] = NoFile]

\* an exception no one catches ends the script run; st.session_state and
\* the files stay as they are
Raise(s, error) ==
    /\ pc' = [pc EXCEPT ![s] = "idle"]
    /\ outcome' = [outcome EXCEPT ![s] = error]
    /\ NoLocals(s)

Goto(s, where) == pc' = [pc EXCEPT ![s] = where]

Init ==
    /\ today = 0
    /\ hashSalt \in 0..MaxSalt
    /\ np_random = 0
    /\ files = << >>
    /\ pc = [s \in Sessions |-> "idle"]
    /\ button = [s \in Sessions |-> FALSE]
    /\ customer_name = [s \in Sessions |-> << >>]
    /\ uploaded_logo = [s \in Sessions |-> NoUpload]
    /\ presentation_tone = [s \in Sessions |-> "Formal"]
    /\ deck_generated = [s \in Sessions |-> FALSE]
    /\ deck_path = [s \in Sessions |-> ""]
    /\ logo_path = [s \in Sessions |-> ""]
    /\ enhanced_data = [s \in Sessions |-> NoData]
    /\ prs = [s \in Sessions |-> << >>]
    /\ final_deck_path = [s \in Sessions |-> ""]
    /\ opened = [s \in Sessions |-> NoFile]
    /\ outcome = [s \in Sessions |-> "ready"]
    /\ created = [s \in Sessions |-> {}]
    /\ offered = [s \in Sessions |-> NoFile]
    /\ lifecycle = [s \in Sessions |-> << >>]
    /\ previous = NoData
    /\ runs = [s \in Sessions |-> 0]
    /\ cli = CliIdle

(***************************************************************************)
(* The script run of app.py, lines 379-453.                                *)
(***************************************************************************)
\* A rerun starts: the widgets take the values the requester left in them
\* (lines 383-391) and the button is pressed or not (line 410).  Limit, when
\* not 0, bounds the runs a session starts; ToneChoices are the tones the
\* requesters pick from.
StartRun(s, Limit, ToneChoices) ==
    /\ pc[s] = "idle"
    /\ IF Limit = 0
         THEN UNCHANGED runs
         ELSE runs[s] < Limit /\ runs' = [runs EXCEPT ![s] = @ + 1]
    /\ \E pressed \in BOOLEAN, name \in Names, logo \in Uploads(s),
          tone \in ToneChoices :
         /\ button' = [button EXCEPT ![s] = pressed]
         /\ customer_name' = [customer_name EXCEPT ![s] = name]
         /\ uploaded_logo' = [uploaded_logo EXCEPT ![s] = logo]
         /\ presentation_tone' = [presentation_tone EXCEPT ![s] = tone]
    /\ Goto(s, "button")
    /\ outcome' = [outcome EXCEPT ![s] = "running"]
    /\ created' = [created EXCEPT ![s] = {}]
    /\ offered' = [offered EXCEPT ![s] = NoFile]
    /\ UNCHANGED << today, hashSalt, np_random, files, deck_generated,
                    deck_path, logo_path, enhanced_data, prs, final_deck_path, opened,
                    lifecycle, previous, cli >>

\* the flag left as it was
FlagAfterWarning_Untouched(flag) == flag

\* the flag as the else branch of line 442 leaves it
FlagAfterWarning(flag) == FALSE

\* lines 410-411 and 440-442: the branch on the button and on the name
Handler(s) ==
    /\ pc[s] = "button"
    /\ IF button[s] /\ customer_name[s] # << >>
         THEN /\ Goto(s, "save_logo")
              /\ UNCHANGED << deck_generated, outcome >>
         ELSE IF button[s]
                THEN /\ Goto(s, "download")
                     /\ outcome' = [outcome EXCEPT ![s] = "warning"]
                     /\ deck_generated' =
                          [deck_generated EXCEPT ![s] = FlagAfterWarning(@)]
                ELSE /\ Goto(s, "download")
                     /\ UNCHANGED << deck_generated, outcome >>
    /\ UNCHANGED << today, hashSalt, np_random, files, button, customer_name,
                    uploaded_logo, presentation_tone, deck_path, logo_path,
                    enhanced_data, prs, final_deck_path, opened, created, offered, lifecycle,
                    previous, runs, cli >>

\* lines 412-417: the uploaded logo is written to ./<its name>
SaveLogo(s) ==
    /\ pc[s] = "save_logo"
    /\ IF uploaded_logo[s] # NoUpload
         THEN LET path == "./" \o uploaded_logo[s].name
              IN  /\ logo_path' = [logo_path EXCEPT ![s] = path]
                  /\ files' = WriteFile(files, path,
                                [kind |-> "logo", by |-> uploaded_logo[s].bytes])
                  /\ created' = [created EXCEPT ![s] = @ \cup {path}]
         ELSE /\ logo_path' = [logo_path EXCEPT ![s] = ""]
              /\ UNCHANGED << files, created >>
    /\ Goto(s, "agg_seed")
    /\ UNCHANGED << today, hashSalt, np_random, button, customer_name,
                    uploaded_logo, presentation_tone, deck_generated,
                    deck_path, enhanced_data, prs, final_deck_path, opened, outcome, offered,
                    lifecycle, previous, runs, cli >>

\* line 36, reached from line 422: the global generator is re-seeded
AggSeed(s) ==
    /\ pc[s] = "agg_seed"
    /\ np_random' = HashSeed(customer_name[s], hashSalt)
    /\ Goto(s, "agg_draw")
    /\ UNCHANGED << today, hashSalt, files, button, customer_name,
                    uploaded_logo, presentation_tone, deck_generated,
                    deck_path, logo_path, enhanced_data, prs, final_deck_path, opened, outcome,
                    created, offered, lifecycle, previous, runs, cli >>

\* lines 38-87: the facts are drawn from the global generator
AggDraw(s) ==
    /\ pc[s] = "agg_draw"
    /\ enhanced_data' = [enhanced_data EXCEPT ![s] =
         EnhancedData(customer_name[s], presentation_tone[s], np_random, today)]
    /\ np_random' = RngAfter(np_random, DrawsPerCall)
    /\ Goto(s, "title")
    /\ UNCHANGED << today, hashSalt, files, button, customer_name,
                    uploaded_logo, presentation_tone, deck_generated,
                    deck_path, logo_path, prs, final_deck_path, opened, outcome, created,
                    offered, lifecycle, previous, runs, cli >>


(* create_professional_qbr_deck, lines 170-274, step by step.  A step that *)
(* calls into matplotlib or python-pptx may raise: Faults is the set of    *)
(* outcomes a specification lets the libraries have (TRUE: the call        *)
(* raises).                                                                *)
(***************************************************************************)
\* a slide that needs no file of its own is added (with its master
\* elements, which read the logo file when it exists)
AddSlides(s, Faults) ==
    /\ pc[s] \in SlideSteps
    /\ \E fault \in Faults :
         IF fault
           THEN Raise(s, "ComposeFailure")
           ELSE /\ prs' = [prs EXCEPT ![s] = @ \o
                     SlidesOfStep(pc[s], enhanced_data[s], logo_path[s],
                                  files, today)]
                /\ Goto(s, AfterStep(pc[s]))
                /\ UNCHANGED << logo_path, enhanced_data, final_deck_path,
                                opened, outcome >>
    /\ UNCHANGED << today, hashSalt, np_random, files, button, customer_name,
                    uploaded_logo, presentation_tone, deck_generated,
                    deck_path, created, offered, lifecycle, previous, runs, cli >>

\* lines 225-226: the snapshot slide; create_kpi_gauge_chart saves the gauge
\* of data['kpis']['Account Health'] as kpi_gauge.png
KpiSlideStep(s, Faults) ==
    /\ pc[s] = "kpi_slide"
    /\ \E fault \in Faults :
         IF fault
           THEN Raise(s, "RenderFailure") /\ UNCHANGED << files, created >>
           ELSE /\ prs' = [prs EXCEPT ![s] = Append(@,
                     KpiSlide(enhanced_data[s], logo_path[s], files, today))]
                /\ files' = WriteFile(files, KpiGaugePath,
                     GaugeImage(enhanced_data[s].kpis.AccountHealth, s))
                /\ created' = [created EXCEPT ![s] = @ \cup {KpiGaugePath}]
                /\ Goto(s, AfterStep(pc[s]))
                /\ UNCHANGED << logo_path, enhanced_data, final_deck_path,
                                opened, outcome >>
    /\ UNCHANGED << today, hashSalt, np_random, button, customer_name,
                    uploaded_logo, presentation_tone, deck_generated,
                    deck_path, offered, lifecycle, previous, runs, cli >>

\* line 227: add_picture reads kpi_gauge.png
GaugeInsert(s, Faults) ==
    /\ pc[s] = "gauge_insert"
    /\ \E fault \in Faults :
         IF ~Exists(files, KpiGaugePath)
           THEN Raise(s, "FileNotFoundError")
           ELSE IF fault
             THEN Raise(s, "ComposeFailure")
             ELSE /\ prs' = [prs EXCEPT ![s] = AddShape(@,
                       Picture(files[KpiGaugePath], Inches(100), Inches(250)))]
                  /\ Goto(s, AfterStep(pc[s]))
                  /\ UNCHANGED << logo_path, enhanced_data, final_deck_path,
                                  opened, outcome >>
    /\ UNCHANGED << today, hashSalt, np_random, files, button, customer_name,
                    uploaded_logo, presentation_tone, deck_generated,
                    deck_path, created, offered, lifecycle, previous, runs, cli >>

\* line 228: os.remove(kpi_gauge_path); lines 231-237: the other KPIs
GaugeRemove(s) ==
    /\ pc[s] = "gauge_remove"
    /\ IF ~Exists(files, KpiGaugePath)
         THEN Raise(s, "FileNotFoundError") /\ UNCHANGED files
         ELSE /\ files' = RemoveFile(files, KpiGaugePath)
              /\ prs' = [prs EXCEPT ![s] =
                   AddShape(@, OtherKpisBox(enhanced_data[s]))]
              /\ Goto(s, AfterStep(pc[s]))
              /\ UNCHANGED << logo_path, enhanced_data, final_deck_path,
                              opened, outcome >>
    /\ UNCHANGED << today, hashSalt, np_random, button, customer_name,
                    uploaded_logo, presentation_tone, deck_generated,
                    deck_path, created, offered, lifecycle, previous, runs, cli >>

\* lines 272-274: the deck is saved under its file name, which is returned
SaveDeck(s, Faults) ==
    /\ pc[s] = "save"
    /\ \E fault \in Faults :
         IF fault
           THEN /\ Raise(s, "ComposeFailure")
                /\ UNCHANGED << files, created, lifecycle >>
           ELSE LET output_filename == OutputFilename(enhanced_data[s], today)
                IN  /\ files' = WriteFile(files, output_filename,
                                          DeckFile(prs[s], s))
                    /\ created' = [created EXCEPT ![s] =
                                     @ \cup {output_filename}]
                    /\ final_deck_path' =
                         [final_deck_path EXCEPT ![s] = output_filename]
                    /\ lifecycle' = [lifecycle EXCEPT ![s] = << "written" >>]
                    /\ Goto(s, AfterStep(pc[s]))
                    /\ UNCHANGED << logo_path, enhanced_data, prs, opened,
                                    outcome >>
    /\ UNCHANGED << today, hashSalt, np_random, button, customer_name,
                    uploaded_logo, presentation_tone, deck_generated,
                    deck_path, offered, previous, runs, cli >>

(***************************************************************************)
(* The rest of the handler and the download block, lines 431-453.          *)
(***************************************************************************)
\* lines 431-435
Mark(s) ==
    /\ pc[s] = "mark"
    /\ deck_generated' = [deck_generated EXCEPT ![s] = TRUE]
    /\ deck_path' = [deck_path EXCEPT ![s] = final_deck_path[s]]
    /\ Goto(s, "logo_cleanup")
    /\ UNCHANGED << today, hashSalt, np_random, files, button, customer_name,
                    uploaded_logo, presentation_tone, logo_path,
                    enhanced_data, prs, final_deck_path, opened, outcome,
                    created, offered, lifecycle, previous, runs, cli >>

\* lines 438-439
LogoCleanup(s) ==
    /\ pc[s] = "logo_cleanup"
    /\ files' = IF logo_path[s] # "" THEN CleanedUp(files, logo_path[s])
                  ELSE files
    /\ Goto(s, "download")
    /\ UNCHANGED << today, hashSalt, np_random, button, customer_name,
                    uploaded_logo, presentation_tone, deck_generated,
                    deck_path, logo_path, enhanced_data, prs, final_deck_path,
                    opened, outcome, created, offered, lifecycle, previous, runs, cli >>

\* lines 444-445: with the flag set, the file deck_path names is opened
Download(s) ==
    /\ pc[s] = "download"
    /\ IF deck_generated[s]
         THEN IF Exists(files, deck_path[s])
                THEN /\ opened' = [opened EXCEPT ![s] = files[deck_path[s]]]
                     /\ Goto(s, "offer")
                     /\ UNCHANGED << logo_path, enhanced_data, prs,
                                     final_deck_path, outcome >>
                ELSE Raise(s, "FileNotFoundError")
         ELSE /\ Goto(s, "preview_gauge")
              /\ UNCHANGED << logo_path, enhanced_data, prs, final_deck_path,
                              opened, outcome >>
    /\ UNCHANGED << today, hashSalt, np_random, files, button, customer_name,
                    uploaded_logo, presentation_tone, deck_generated,
                    deck_path, created, offered, lifecycle, previous, runs, cli >>

\* lines 446-449: the open file is handed to st.download_button.  The call
\* may end the run: it raises, or Streamlit serves a pending stop or rerun
\* request at it, which unwinds the script from inside the call
Offer(s, Faults) ==
    /\ pc[s] = "offer"
    /\ \E fault \in Faults :
         IF fault
           THEN Raise(s, "DownloadFailure") /\ UNCHANGED << offered, lifecycle >>
           ELSE /\ offered' = [offered EXCEPT ![s] = opened[s]]
                /\ lifecycle' = [lifecycle EXCEPT ![s] = Append(@, "offered")]
                /\ Goto(s, "deck_cleanup")
                /\ UNCHANGED << logo_path, enhanced_data, prs,
                                final_deck_path, opened, outcome >>
    /\ UNCHANGED << today, hashSalt, np_random, files, button, customer_name,
                    uploaded_logo, presentation_tone, deck_generated,
                    deck_path, created, previous, runs, cli >>

\* lines 451-453: the deck file is removed and the flag reset
DeckCleanup(s) ==
    /\ pc[s] = "deck_cleanup"
    /\ files' = CleanedUp(files, deck_path[s])
    /\ lifecycle' = IF Exists(files, deck_path[s])
                         /\ ~Exists(files', deck_path[s])
                      THEN [lifecycle EXCEPT ![s] = Append(@, "deleted")]
                      ELSE lifecycle
    /\ deck_generated' = [deck_generated EXCEPT ![s] = FALSE]
    /\ Goto(s, "preview_gauge")
    /\ UNCHANGED << today, hashSalt, np_random, button, customer_name,
                    uploaded_logo, presentation_tone, deck_path, logo_path,
                    enhanced_data, prs, final_deck_path, opened, outcome,
                    created, offered, previous, runs, cli >>

(***************************************************************************)
(* The component previews, lines 455-485, run by every script run.         *)
(***************************************************************************)
\* line 463: create_kpi_gauge_chart(92, "sample_gauge.png")
PreviewGauge(s) ==
    /\ pc[s] = "preview_gauge"
    /\ files' = WriteFile(files, SampleGaugePath, GaugeImage(92, s))
    /\ Goto(s, "preview_image")
    /\ UNCHANGED << today, hashSalt, np_random, button, customer_name,
                    uploaded_logo, presentation_tone, deck_generated,
                    deck_path, logo_path, enhanced_data, prs, final_deck_path,
                    opened, outcome, created, offered, lifecycle, previous, runs, cli >>

\* lines 464-465: st.image reads the file, os.remove deletes it
PreviewImage(s) ==
    /\ pc[s] = "preview_image"
    /\ IF Exists(files, SampleGaugePath)
         THEN /\ files' = RemoveFile(files, SampleGaugePath)
              /\ Goto(s, "preview_data")
              /\ UNCHANGED << logo_path, enhanced_data, prs, final_deck_path,
                              opened, outcome >>
         ELSE Raise(s, "FileNotFoundError") /\ UNCHANGED files
    /\ UNCHANGED << today, hashSalt, np_random, button, customer_name,
                    uploaded_logo, presentation_tone, deck_generated,
                    deck_path, created, offered, lifecycle, previous, runs, cli >>

\* lines 470 and 485: two more aggregator calls, for "Sample Company" and
\* then "Sample Co."; each call re-seeds the generator, so the second one
\* decides the state it is left in; the run ends
PreviewData(s) ==
    /\ pc[s] = "preview_data"
    /\ np_random' = RngAfter(HashSeed(SampleCo, hashSalt), DrawsPerCall)
    /\ pc' = [pc EXCEPT ![s] = "idle"]
    /\ outcome' = [outcome EXCEPT ![s] =
                     IF @ = "running" THEN "completed" ELSE @]
    /\ NoLocals(s)
    /\ UNCHANGED << today, hashSalt, files, button, customer_name,
                    uploaded_logo, presentation_tone, deck_generated,
                    deck_path, created, offered, lifecycle, previous, runs, cli >>

\* midnight passes
NextDay ==
    /\ today < MaxDay
    /\ today' = today + 1
    /\ UNCHANGED << hashSalt, np_random, files, pc, button, customer_name,
                    uploaded_logo, presentation_tone, deck_generated,
                    deck_path, logo_path, enhanced_data, prs, final_deck_path,
                    opened, outcome, created, offered, lifecycle, previous, runs, cli >>

\* one step of the script run of session s
RunStep(s, Faults, Limit, ToneChoices) ==
    \/ StartRun(s, Limit, ToneChoices)
    \/ Handler(s)
    \/ SaveLogo(s)
    \/ AggSeed(s)
    \/ AggDraw(s)
    \/ AddSlides(s, Faults)
    \/ KpiSlideStep(s, Faults)
    \/ GaugeInsert(s, Faults)
    \/ GaugeRemove(s)
    \/ SaveDeck(s, Faults)
    \/ Mark(s)
    \/ LogoCleanup(s)
    \/ Download(s)
    \/ Offer(s, Faults)
    \/ DeckCleanup(s)
    \/ PreviewGauge(s)
    \/ PreviewImage(s)
    \/ PreviewData(s)

\* one requester, one run at a time; the libraries may fail
Next == RunStep(1, BOOLEAN, 0, Tones)

Spec == Init /\ [][Next]_vars

\* two sessions of the same server process, their runs interleaved; the
\* libraries do not fail and both requesters keep the default tone
ConcNext == \E s \in Sessions : RunStep(s, {FALSE}, MaxConcRuns, {"Formal"})

ConcSpec == Init /\ [][ConcNext]_vars

(***************************************************************************)
(* The composer on its own: create_professional_qbr_deck(data, logo_path)  *)
(* applied to facts drawn from a bounded set.                              *)
(***************************************************************************)
ComposeSubject == <<"A", " ", "B">>

\* facts as the aggregator builds them for ComposeSubject
AggregatedFacts ==
    EnhancedData(ComposeSubject, "Formal", HashSeed(ComposeSubject, 0), 0)

\* a table of the given columns with r rows
DrawnTable(columns, r) ==
    DataFrame(columns,
      [i \in 1..r |->
         [c \in 1..Len(columns) |-> "r" \o ToString(i) \o "c" \o ToString(c)]])

\* a roadmap mapping of n quarters
DrawnRoadmap(n) ==
    [i \in 1..n |->
       [quarter |-> "Quarter " \o ToString(i),
        features |-> << "Feature " \o ToString(i) >>]]

\* well-formed facts whose roadmap has n entries and whose tables have
\* rc, ro and ra rows
DrawnFacts(n, rc, ro, ra) ==
    [AggregatedFacts EXCEPT
       !.roadmap = DrawnRoadmap(n),
       !.commit_vs_actual = DrawnTable(@.columns, rc),
       !.okrs = DrawnTable(@.columns, ro),
       !.action_plan = DrawnTable(@.columns, ra)]

ComposeLogoPath == "./logo.png"

ComposeInit ==
    /\ today = 0
    /\ hashSalt = 0
    /\ np_random = 0
    /\ \E withLogo \in BOOLEAN :
         /\ logo_path = [s \in Sessions |->
                           IF s = 1 /\ withLogo THEN ComposeLogoPath ELSE ""]
         /\ files = IF withLogo
                      THEN WriteFile(<< >>, ComposeLogoPath,
                                     [kind |-> "logo", by |-> 1])
                      ELSE << >>
    /\ pc = [s \in Sessions |-> IF s = 1 THEN "title" ELSE "idle"]
    /\ button = [s \in Sessions |-> FALSE]
    /\ customer_name = [s \in Sessions |-> << >>]
    /\ uploaded_logo = [s \in Sessions |-> NoUpload]
    /\ presentation_tone = [s \in Sessions |-> "Formal"]
    /\ deck_generated = [s \in Sessions |-> FALSE]
    /\ deck_path = [s \in Sessions |-> ""]
    /\ \E data \in {AggregatedFacts} \cup
                   { DrawnFacts(n, rc, ro, ra) :
                       n \in 0..MaxRoadmap, rc \in 0..MaxRows,
                       ro \in 0..MaxRows, ra \in 0..MaxRows } :
         enhanced_data = [s \in Sessions |-> IF s = 1 THEN data ELSE NoData]
    /\ prs = [s \in Sessions |-> << >>]
    /\ final_deck_path = [s \in Sessions |-> ""]
    /\ opened = [s \in Sessions |-> NoFile]
    /\ outcome = [s \in Sessions |-> IF s = 1 THEN "running" ELSE "ready"]
    /\ created = [s \in Sessions |-> {}]
    /\ offered = [s \in Sessions |-> NoFile]
    /\ lifecycle = [s \in Sessions |-> << >>]
    /\ previous = NoData
    /\ runs = [s \in Sessions |-> 0]
    /\ cli = CliIdle

\* the steps of the composer; it has returned when pc[1] = "mark"
ComposeNext ==
    \/ AddSlides(1, {FALSE})
    \/ KpiSlideStep(1, {FALSE})
    \/ GaugeInsert(1, {FALSE})
    \/ GaugeRemove(1)
    \/ SaveDeck(1, {FALSE})

ComposeSpec == ComposeInit /\ [][ComposeNext]_vars

(***************************************************************************)
(* The aggregators on their own: calls of get_enhanced_mock_data and of    *)
(* get_mock_customer_data, on any day, in one interpreter or another.      *)
(***************************************************************************)
\* a call of get_enhanced_mock_data(name, tone) begins; the result of the
\* call before it may be kept for comparison
AggStart ==
    /\ pc[1] \in {"idle", "title"}
    /\ \E name \in Subjects, tone \in Tones :
         /\ customer_name' = [customer_name EXCEPT ![1] = name]
         /\ presentation_tone' = [presentation_tone EXCEPT ![1] = tone]
    /\ previous' \in {previous, enhanced_data[1]}
    /\ Goto(1, "agg_seed")
    /\ UNCHANGED << today, hashSalt, np_random, files, button, uploaded_logo,
                    deck_generated, deck_path, logo_path, enhanced_data, prs,
                    final_deck_path, opened, outcome, created, offered,
                    lifecycle, runs, cli >>

\* get_mock_customer_data(name) of qbrgenerator.py, lines 14-42, as a whole
MockCall ==
    /\ pc[1] \in {"idle", "title"}
    /\ \E name \in Subjects :
         /\ customer_name' = [customer_name EXCEPT ![1] = name]
         /\ enhanced_data' = [enhanced_data EXCEPT ![1] =
                                MockCustomerData(name, FixedSeed)]
    /\ previous' \in {previous, enhanced_data[1]}
    /\ np_random' = RngAfter(FixedSeed, MockDrawsPerCall)
    /\ Goto(1, "idle")
    /\ UNCHANGED << today, hashSalt, files, button, uploaded_logo,
                    presentation_tone, deck_generated, deck_path, logo_path,
                    prs, final_deck_path, opened, outcome, created, offered,
                    lifecycle, runs, cli >>

\* the interpreter is started anew: hash() gets another salt
AggRestart ==
    /\ pc[1] \in {"idle", "title"}
    /\ hashSalt' \in 0..MaxSalt
    /\ np_random' = 0
    /\ UNCHANGED << today, files, pc, button, customer_name, uploaded_logo,
                    presentation_tone, deck_generated, deck_path, logo_path,
                    enhanced_data, prs, final_deck_path, opened, outcome,
                    created, offered, lifecycle, previous, runs, cli >>

AggNext ==
    \/ AggStart
    \/ AggSeed(1)
    \/ AggDraw(1)
    \/ MockCall
    \/ AggRestart
    \/ NextDay

AggSpec == Init /\ [][AggNext]_vars

(***************************************************************************)
(* get_enhanced_mock_data called twice, one call after the other, in one   *)
(* interpreter on one day: the slots 1 and 2 hold the arguments and the    *)
(* results of the two calls.                                               *)
(***************************************************************************)
\* the tone argument: the two tones of the selectbox and another string
ToneArgs == Tones \cup {"Casual"}

\* a call get_enhanced_mock_data(name, tone) begins in slot s while no call
\* is under way
ToneCall(s) ==
    /\ \A t \in Sessions : pc[t] \in {"idle", "title"}
    /\ \E name \in Subjects, tone \in ToneArgs :
         /\ customer_name' = [customer_name EXCEPT ![s] = name]
         /\ presentation_tone' = [presentation_tone EXCEPT ![s] = tone]
    /\ Goto(s, "agg_seed")
    /\ UNCHANGED << today, hashSalt, np_random, files, button, uploaded_logo,
                    deck_generated, deck_path, logo_path, enhanced_data, prs,
                    final_deck_path, opened, outcome, created, offered,
                    lifecycle, previous, runs, cli >>

ToneNext ==
    \E s \in Sessions :
       \/ ToneCall(s)
       \/ AggSeed(s)
       \/ AggDraw(s)

ToneSpec == Init /\ [][ToneNext]_vars

(***************************************************************************)
(* The command-line pipeline of qbrgenerator.py:                           *)
(* generate_qbr_for_customer, lines 130-149.                               *)
(***************************************************************************)
\* the variables of the Streamlit sessions, which the pipeline leaves alone
sessionVars ==
    << hashSalt, pc, button, customer_name, uploaded_logo, presentation_tone,
       deck_generated, deck_path, logo_path, enhanced_data, prs,
       final_deck_path, opened, outcome, created, offered, lifecycle,
       previous, runs >>

\* an exception ends generate_qbr_for_customer where it stands
CliRaise(error) ==
    cli' = [cli EXCEPT !.pc = "done", !.outcome = error]

\* line 153, or any caller: generate_qbr_for_customer(customer_name)
CliStart ==
    /\ cli.pc \in {"idle", "done"}
    /\ \E name \in Names :
         cli' = [CliIdle EXCEPT !.pc = "fetch", !.customer_name = name,
                                !.outcome = "running"]
    /\ UNCHANGED << today, np_random, files, sessionVars >>

\* line 133: the facts arrive; get_mock_customer_data re-seeds the global
\* generator and draws from it
CliFetch ==
    /\ cli.pc = "fetch"
    /\ \E data \in CliFacts(cli.customer_name) :
         cli' = [cli EXCEPT !.pc = "summary", !.customer_data = data]
    /\ np_random' = RngAfter(FixedSeed, MockDrawsPerCall)
    /\ UNCHANGED << today, files, sessionVars >>

\* line 136: generate_ai_summary; .iloc[-1] and .iloc[0] of line 51 raise
\* IndexError on a series without points
CliSummary ==
    /\ cli.pc = "summary"
    /\ IF Len(cli.customer_data.mau_df.rows) = 0
         THEN CliRaise("IndexError")
         ELSE cli' = [cli EXCEPT
                        !.pc = "chart",
                        !.ai_summary = generate_ai_summary(cli.customer_data)]
    /\ UNCHANGED << today, np_random, files, sessionVars >>

\* line 139: create_mau_chart saves mau_chart.png.  What seaborn does with a
\* frame without rows is the library's choice: it raises, or it draws the
\* axes without a line
CliChart ==
    /\ cli.pc = "chart"
    /\ \E fault \in IF Len(cli.customer_data.mau_df.rows) = 0
                      THEN BOOLEAN ELSE {FALSE} :
         IF fault
           THEN CliRaise("RenderFailure") /\ UNCHANGED files
           ELSE /\ files' = WriteFile(files, MauChartPath,
                              MauChartImage(cli.customer_data.mau_df,
                                            cli.customer_name))
                /\ cli' = [cli EXCEPT !.pc = "deck",
                                      !.chart_file = MauChartPath]
    /\ UNCHANGED << today, np_random, sessionVars >>

\* line 142: create_qbr_deck builds the slides, reading the chart file at
\* line 122, and saves them under the output file name
CliDeck ==
    /\ cli.pc = "deck"
    /\ IF ~Exists(files, cli.chart_file)
         THEN CliRaise("FileNotFoundError") /\ UNCHANGED files
         ELSE LET output_filename == OutputFilename(cli.customer_data, today)
              IN  /\ files' = WriteFile(files, output_filename,
                                DeckFile(CliSlides(cli.customer_data,
                                                   cli.ai_summary,
                                                   files[cli.chart_file],
                                                   today),
                                         0))
                  /\ cli' = [cli EXCEPT !.pc = "remove",
                                        !.deck_filename = output_filename]
    /\ UNCHANGED << today, np_random, sessionVars >>

\* lines 144-149: the chart image is removed and the file name returned
CliRemove ==
    /\ cli.pc = "remove"
    /\ IF ~Exists(files, cli.chart_file)
         THEN CliRaise("FileNotFoundError") /\ UNCHANGED files
         ELSE /\ files' = RemoveFile(files, cli.chart_file)
              /\ cli' = [cli EXCEPT !.pc = "done", !.outcome = "completed"]
    /\ UNCHANGED << today, np_random, sessionVars >>

CliNext ==
    \/ CliStart
    \/ CliFetch
    \/ CliSummary
    \/ CliChart
    \/ CliDeck
    \/ CliRemove

CliSpec == Init /\ [][CliNext]_vars

(***************************************************************************)
(* Properties of the composer (ComposeSpec).                               *)
(***************************************************************************)
\* the composer of session s has returned
Composed(s) == pc[s] = "mark"

TitlesOf(slides) == [i \in 1..Len(slides) |-> slides[i].title]

\* every optional section of the facts holds something
Populated(data) ==
    /\ Len(data.roadmap) > 0
    /\ Len(data.commit_vs_actual.rows) > 0
    /\ Len(data.okrs.rows) > 0
    /\ Len(data.action_plan.rows) > 0
    /\ Len(data.challenges) > 0
    /\ Len(data.learnings) > 0
    /\ Len(data.revenue_forecast.rows) > 0

\* the slide shows a rendered chart
IsChartSlide(slide) ==
    \E k \in 1..Len(slide.shapes) :
       IF slide.shapes[k].shape = "picture"
         THEN slide.shapes[k].image.kind = "png"
         ELSE FALSE

\* the titles of the slides before and after the chart slide of the
\* ordering policy
TitlesBeforeChart(data) ==
    << "Quarterly Business Review: " \o Str(data.customer_name), "Agenda",
       "Quarterly Snapshot: Highlights",
       "Commitment Review: Promises vs. Reality",
       "Challenges & Key Learnings", "Objectives for Next Quarter (OKRs)",
       RoadmapTitle >>

TitlesAfterChart == << "Joint Action Plan & Owners", "Thank You" >>

\* C1: the deck built from fully populated facts has exactly 10 slides:
\* title, agenda, KPI snapshot, commitment table, challenges/learnings, OKR
\* table, roadmap, a chart slide, action-plan table, closing.
C1_TenSlidesWithChartSlide ==
    (Composed(1) /\ Populated(enhanced_data[1])) =>
        /\ Len(prs[1]) = 10
        /\ SubSeq(TitlesOf(prs[1]), 1, 7) = TitlesBeforeChart(enhanced_data[1])
        /\ IsChartSlide(prs[1][8])
        /\ SubSeq(TitlesOf(prs[1]), 9, 10) = TitlesAfterChart

\* C6: a deck composed from facts with an empty roadmap mapping has no
\* roadmap slide, and its other slides are there in their usual order.
C6_EmptyRoadmapOmitsSlide ==
    (Composed(1) /\ enhanced_data[1].roadmap = << >>) =>
        /\ \A i \in 1..Len(prs[1]) : prs[1][i].title # RoadmapTitle
        /\ TitlesOf(prs[1]) =
             SubSeq(TitlesBeforeChart(enhanced_data[1]), 1, 6)
               \o TitlesAfterChart

\* the roadmap slide of session s is built
HasRoadmapSlide(s) ==
    \E i \in 1..Len(prs[s]) : prs[s][i].title = RoadmapTitle

RoadmapSlideOf(s) ==
    prs[s][CHOOSE i \in 1..Len(prs[s]) : prs[s][i].title = RoadmapTitle]

\* the boxes of the roadmap row: the last n shapes of the slide
RoadmapBoxes(s) ==
    LET shapes == RoadmapSlideOf(s).shapes
        n == Len(enhanced_data[s].roadmap)
    IN  SubSeq(shapes, Len(shapes) - n + 1, Len(shapes))

\* a roadmap row of at least one box has been laid out
RowLaidOut(s) == HasRoadmapSlide(s) /\ Len(enhanced_data[s].roadmap) >= 1

\* the width the row takes: N boxes and N - 1 gaps
RowWidth(s) ==
    LET boxes == RoadmapBoxes(s)
    IN  Len(boxes) * boxes[1].width + (Len(boxes) - 1) * Inches(GapWidth)

\* C7 as stated: for every N >= 1 the left offset X of the roadmap row
\* satisfies X >= 0 and X + N*B + (N-1)*G = W.
C7_OffsetPlusRowIsCanvas ==
    RowLaidOut(1) =>
        /\ RoadmapBoxes(1)[1].left >= 0
        /\ RoadmapBoxes(1)[1].left + RowWidth(1) = Inches(CanvasWidth)

\* C7 as amended: for every N >= 1 the left offset X of the roadmap row
\* satisfies 2*X + N*B + (N-1)*G = W, and X >= 0 exactly when the row is no
\* wider than the canvas (N*B + (N-1)*G <= W).
C7_TwiceOffsetPlusRowIsCanvas ==
    RowLaidOut(1) =>
        /\ 2 * RoadmapBoxes(1)[1].left + RowWidth(1) = Inches(CanvasWidth)
        /\ (RoadmapBoxes(1)[1].left >= 0) <=> (RowWidth(1) <= Inches(CanvasWidth))

\* a row wider than the canvas has been laid out: its offset is negative
C7_Witness ==
    /\ Composed(1)
    /\ RowLaidOut(1)
    /\ RowWidth(1) > Inches(CanvasWidth)
    /\ RoadmapBoxes(1)[1].left < 0

\* C8: for every N >= 1, box i of the roadmap row has its left edge at
\* X + i*(B + G), consecutive boxes are G apart, and the margin left of the
\* first box equals the margin right of the last one.
C8_EvenlySpacedAndCentred ==
    RowLaidOut(1) =>
        LET boxes == RoadmapBoxes(1)
            N == Len(boxes)
            X == boxes[1].left
        IN  /\ \A i \in 1..N :
                 /\ boxes[i].width = Inches(BoxWidth)
                 /\ boxes[i].left =
                      X + (i - 1) * (Inches(BoxWidth) + Inches(GapWidth))
            /\ \A i \in 1..(N - 1) :
                 boxes[i + 1].left - (boxes[i].left + boxes[i].width)
                   = Inches(GapWidth)
            /\ X = Inches(CanvasWidth) - (boxes[N].left + boxes[N].width)

\* a row of several boxes has been laid out
C8_Witness ==
    Composed(1) /\ RowLaidOut(1) /\ Len(RoadmapBoxes(1)) >= 3

\* the slides that carry a table, with the DataFrame each is rendered from
TableSlides(data) ==
    << << "Commitment Review: Promises vs. Reality", data.commit_vs_actual >>,
       << "Objectives for Next Quarter (OKRs)", data.okrs >>,
       << "Joint Action Plan & Owners", data.action_plan >> >>

\* the table is rendered from df by the styling rule
TableStyled(table, df) ==
    LET R == Len(df.rows)
        ncols == Len(df.columns)
    IN  /\ table.shape = "table"
        /\ table.nrows = R + 1
        /\ DOMAIN table.cells = 1..(R + 1)
        /\ \A c \in 1..ncols :
             /\ table.cells[1][c].fill = PRIMARY_COLOR_PPT
             /\ table.cells[1][c].color = WHITE_COLOR
             /\ table.cells[1][c].bold
             /\ table.cells[1][c].text = df.columns[c]
        /\ \A i \in 0..(R - 1) : \A c \in 1..ncols :
             /\ table.cells[i + 2][c].text = df.rows[i + 1][c]
             /\ (table.cells[i + 2][c].fill = BACKGROUND_COLOR_PPT)
                  <=> (i % 2 = 1)
             /\ (i % 2 = 0) => table.cells[i + 2][c].fill = NoColor

\* C9: a table of R data rows is rendered with R + 1 rows, a header row of
\* primary-colour cells with white bold text, and the alternate fill on
\* data row i (0-indexed) exactly when i is odd, no fill on the even rows.
C9_HeaderAndZebra ==
    \A i \in 1..Len(prs[1]) : \A k \in 1..3 :
       prs[1][i].title = TableSlides(enhanced_data[1])[k][1] =>
          TableStyled(prs[1][i].shapes[Len(prs[1][i].shapes)],
                      TableSlides(enhanced_data[1])[k][2])

\* a deck with a table of no data row and a table of several has been built
C9_Witness ==
    /\ Composed(1)
    /\ Len(enhanced_data[1].commit_vs_actual.rows) = 0
    /\ Len(enhanced_data[1].okrs.rows) >= 3

(***************************************************************************)
(* Properties of the script run (Spec: one session; ConcSpec: two).        *)
(***************************************************************************)
\* C2: when a request ends, on success or by an exception, none of the
\* temporary files it created (logo, chart image, deck) is left on disk.
C2_NoTempFileOutlivesRequest ==
    \A s \in Sessions :
       pc[s] = "idle" => \A path \in created[s] : ~Exists(files, path)

\* the pictures session s has put on its slides
PicturesOf(s) ==
    { prs[s][i].shapes[k].image :
        <<i, k>> \in { ik \in (1..Len(prs[s])) \X (1..6) :
                         /\ ik[2] <= Len(prs[s][ik[1]].shapes)
                         /\ prs[s][ik[1]].shapes[ik[2]].shape = "picture" } }

\* C3: concurrent requests do not disturb each other: no request fails on a
\* file another request removed, every image a request puts on its slides
\* and the deck it offers are its own, and its facts are those its own
\* seeding of the generator gives.
C3_ConcurrentRequestsIndependent ==
    \A s \in Sessions :
       /\ outcome[s] # "FileNotFoundError"
       /\ \A image \in PicturesOf(s) : image.by = s
       /\ offered[s] # NoFile => offered[s].by = s
       /\ enhanced_data[s] # NoData =>
            enhanced_data[s] =
              EnhancedData(customer_name[s], presentation_tone[s],
                           HashSeed(customer_name[s], hashSalt), today)

\* the run of session s was started by the button with the name left empty
EmptyNameRequest(s) ==
    button[s] /\ customer_name[s] = << >> /\ pc[s] # "button"

\* C5: a request with an empty name is answered with the warning and
\* produces nothing: no facts, no logo, chart or deck file of the request,
\* deck_generated False afterwards, no download offered in the run.
C5_EmptyNameWarnsAndProducesNothing ==
    \A s \in Sessions :
       EmptyNameRequest(s) =>
          /\ outcome[s] = "warning"
          /\ enhanced_data[s] = NoData
          /\ created[s] = {}
          /\ ~deck_generated[s]
          /\ opened[s] = NoFile
          /\ offered[s] = NoFile

\* an empty-name request has ended while the deck file of an earlier,
\* failed run is still on disk
C5_Witness ==
    /\ EmptyNameRequest(1)
    /\ pc[1] = "idle"
    /\ deck_path[1] # ""
    /\ Exists(files, deck_path[1])

\* the part of the run after the download block
AfterDownloadBlock(s) ==
    pc[s] \in {"preview_gauge", "preview_image", "preview_data", "idle"}

\* C10: the deck file is written, then offered, then deleted, in this
\* order; it is opened for the download only while it exists; once the run
\* that offered it is past the download block, the file is gone.
C10_WrittenOfferedDeleted ==
    \A s \in Sessions :
       /\ lifecycle[s] \in { << >>, << "written" >>, << "written", "offered" >>,
                             << "written", "offered", "deleted" >> }
       /\ (pc[s] = "download" /\ deck_generated[s]) =>
             Exists(files, deck_path[s])
       /\ pc[s] = "offer" =>
             Exists(files, deck_path[s]) /\ opened[s] = files[deck_path[s]]
       /\ (offered[s] # NoFile /\ AfterDownloadBlock(s)) =>
             /\ ~Exists(files, deck_path[s])
             /\ lifecycle[s] = << "written", "offered", "deleted" >>

\* a run has written, offered and deleted its deck and has ended
C10_Witness ==
    /\ pc[1] = "idle"
    /\ offered[1] # NoFile
    /\ created[1] # {}
    /\ lifecycle[1] = << "written", "offered", "deleted" >>

(***************************************************************************)
(* Properties of the aggregators (AggSpec).                                *)
(***************************************************************************)
IsEnhanced(data) == "okrs" \in DOMAIN data
IsMock(data) == "mau_df" \in DOMAIN data

\* two results of the same aggregator for the same subject and tone
SameCall(a, b) ==
    \/ /\ IsEnhanced(a) /\ IsEnhanced(b)
       /\ a.customer_name = b.customer_name
       /\ a.tone = b.tone
    \/ /\ IsMock(a) /\ IsMock(b)
       /\ a.customer_name = b.customer_name

\* the facts without the values computed from the current date
IgnoringDates(data) ==
    IF IsEnhanced(data)
      THEN [data EXCEPT !.kpis.RenewalDate = "",
                        !.action_plan.rows =
                           [i \in 1..Len(@) |-> [@[i] EXCEPT ![3] = ""]]]
      ELSE data

\* C4: two calls of an aggregator with the same subject (and tone) give
\* the same facts, values computed from the current date aside.
C4_SameSubjectSameFacts ==
    (pc[1] \in {"idle", "title"} /\ SameCall(previous, enhanced_data[1])) =>
        IgnoringDates(previous) = IgnoringDates(enhanced_data[1])
(***************************************************************************)
(* Properties of the command-line pipeline (CliSpec).                      *)
(***************************************************************************)
\* the pipeline was given facts whose time series is empty
EmptySeriesRun ==
    /\ cli.customer_data # NoData
    /\ Len(cli.customer_data.mau_df.rows) = 0

\* an image that says there is no data: it carries a text besides the title
\* and the axis labels
IsPlaceholder(image) == Cardinality(image.texts) > 3

\* C11: a run of the generation pipeline on facts whose time series is
\* empty ends with a deck on disk, never with a failure of the summary,
\* chart or composition step, and the chart it rendered for the empty series
\* is a placeholder image.
C11_EmptySeriesEndsWithDeck ==
    /\ (EmptySeriesRun /\ cli.pc = "done") =>
         /\ cli.outcome = "completed"
         /\ Exists(files, cli.deck_filename)
    /\ (EmptySeriesRun /\ cli.chart_file # "" /\ Exists(files, cli.chart_file))
         => IsPlaceholder(files[cli.chart_file])

(***************************************************************************)
(* Order of the stages within a request of the app (Spec).                 *)
(***************************************************************************)
\* the run of session s has rendered its chart image
ChartRendered(s) == KpiGaugePath \in created[s]

\* the composer of session s has put the chart image on a slide
ChartConsumed(s) ==
    \E image \in PicturesOf(s) : image.kind = "png" /\ image.chart = "gauge"

\* C12: within one request the stages run strictly in the order
\* Aggregator, Chart Renderer, Composer, Delivery: when the composer has
\* added a slide the facts are aggregated and every chart image is already
\* rendered, and a chart image that was rendered is gone from the disk only
\* once the composer has put it on a slide.
C12_StagesInStrictOrder ==
    \A s \in Sessions :
       /\ prs[s] # << >> => enhanced_data[s] # NoData /\ ChartRendered(s)
       /\ (pc[s] # "idle" /\ ChartRendered(s) /\ ~Exists(files, KpiGaugePath))
            => ChartConsumed(s)

(***************************************************************************)
(* The effect of the tone on the facts (ToneSpec).                         *)
(***************************************************************************)
\* the call of slot s has returned its facts
Returned(s) == pc[s] = "title" /\ enhanced_data[s] # NoData

\* each text of prefixed is the text of plain at its place behind prefix
PrefixedBy(prefixed, prefix, plain) ==
    /\ Len(prefixed) = Len(plain)
    /\ \A i \in 1..Len(plain) : prefixed[i] = prefix \o plain[i]

\* C13: for the same subject the tone changes only the challenge and
\* learning texts: tone Optimistic gives every challenge the prefix
\* "Opportunity for growth: " and every learning the prefix "Valuable
\* insight gained: ", any other tone gives them without prefix, and the
\* KPIs, tables, roadmap, forecast and action plan are the same for all
\* tones.
C13_ToneChangesOnlyTexts ==
    \A a, b \in Sessions :
       (/\ Returned(a) /\ Returned(b)
        /\ enhanced_data[a].customer_name = enhanced_data[b].customer_name)
       => LET x == enhanced_data[a]
              y == enhanced_data[b]
          IN  /\ x.kpis = y.kpis
              /\ x.commit_vs_actual = y.commit_vs_actual
              /\ x.okrs = y.okrs
              /\ x.roadmap = y.roadmap
              /\ x.revenue_forecast = y.revenue_forecast
              /\ x.action_plan = y.action_plan
              /\ x.tone # "Optimistic" =>
                   /\ x.challenges[1] = "Initial onboarding for the new analytics module was slower than anticipated."
                   /\ x.learnings[1] = "A dedicated onboarding webinar for new modules significantly boosts initial adoption."
              /\ (x.tone # "Optimistic" /\ y.tone # "Optimistic") =>
                   x.challenges = y.challenges /\ x.learnings = y.learnings
              /\ (x.tone # "Optimistic" /\ y.tone = "Optimistic") =>
                   /\ PrefixedBy(y.challenges, "Opportunity for growth: ",
                                 x.challenges)
                   /\ PrefixedBy(y.learnings, "Valuable insight gained: ",
                                 x.learnings)

\* the same subject was aggregated with tone Optimistic and with a tone
\* that is neither Optimistic nor Formal
C13_Witness ==
    /\ Returned(1) /\ Returned(2)
    /\ enhanced_data[1].customer_name = <<"A", " ", "B">>
    /\ enhanced_data[2].customer_name = <<"A", " ", "B">>
    /\ enhanced_data[1].tone = "Casual"
    /\ enhanced_data[2].tone = "Optimistic"

(***************************************************************************)
(* The deck_generated flag of a session over its script runs (Spec).       *)
(***************************************************************************)
\* the run of session s stands between the return of
\* create_professional_qbr_deck and the end of its download block
BetweenComposeAndDownload(s) ==
    /\ pc[s] \in {"logo_cleanup", "download", "offer", "deck_cleanup"}
    /\ final_deck_path[s] # ""

\* the composition of the run of session s has failed
CompositionFailed(s) ==
    outcome[s] \in {"ComposeFailure", "RenderFailure"}

\* C14: in a single session deck_generated is False at the end of every
\* script run; it is True inside a run only between a successful
\* create_professional_qbr_deck call and the download block of that run,
\* and deck_path then names a file that exists; a failed composition never
\* leaves deck_generated True.
C14_FlagTrueOnlyWithinSuccessfulRun ==
    /\ pc[1] = "idle" => ~deck_generated[1]
    /\ deck_generated[1] =>
         /\ BetweenComposeAndDownload(1)
         /\ deck_path[1] = final_deck_path[1]
         /\ Exists(files, deck_path[1])
    /\ CompositionFailed(1) => ~deck_generated[1]

=============================================================================
